---- MODULE Spec2Model ----
(***************************************************************************)
(* A model of the CFA635 packet transport: the framing codec of            *)
(* src/src/codec.rs (Packet, PacketCodec, the CRC) and the transaction     *)
(* engine of src/src/lib.rs (Device::send, recv, transact, poll_report,    *)
(* Report::from_raw).                                                      *)
(*                                                                         *)
(* Bytes are the integers 0..255, a byte stream is a sequence of bytes.    *)
(* The specifications of the module: SpecCodec drives the pure codec       *)
(* functions over bounded inputs; Spec drives a Device against a serial    *)
(* line on which the display module sends whole frames; SpecLine adds      *)
(* damaged frames, frames arriving in pieces and failing writes;           *)
(* SpecTransactFair is a caller that only transacts, with the progress     *)
(* the blocking loop and the port's read timeout guarantee.                *)
(***************************************************************************)
EXTENDS Integers, Sequences, FiniteSets, TLC

\* codec.rs:5  pub const MAX_DATA_LEN: usize = 22;
MAX_DATA_LEN == 22

(***************************************************************************)
(* Bounds of the model.                                                    *)
(***************************************************************************)
\* Longest payload enumerated exhaustively over PayloadBytes (the longer
\* test vectors of codec.rs are added by hand in TestVectors).
MaxPayloadLen == 2

(***************************************************************************)
(* u8 / u16 arithmetic.                                                    *)
(***************************************************************************)
Byte == 0..255
U16 == 0..65535

\* a ^ b on unsigned integers, bit by bit.  The recursion is a function, not
\* an operator: a function is applied to the values of its arguments, so each
\* turn works on numbers and not on the unevaluated expressions of the turns
\* before it.
Xor(a, b) ==
    LET bits[x \in Nat, y \in Nat] ==
            IF x = 0 THEN y
            ELSE IF y = 0 THEN x
            ELSE (((x % 2) + (y % 2)) % 2) + 2 * bits[x \div 2, y \div 2]
    IN bits[a, b]

\* u16::to_le_bytes
to_le_bytes(x) == << (x % 256), (x \div 256) >>

\* !x on a u16
Not16(x) == 65535 - x

\* [0; n]
Zeros(n) == [i \in 1..n |-> 0]

(***************************************************************************)
(* Packet (codec.rs:26-138).                                               *)
(***************************************************************************)

\* Packet::data: &self.data_array[..self.data_len]
data(p) == SubSeq(p.data_array, 1, p.data_len)

\* Packet::packet_type
packet_type(p) == p.packet_type

\* Packet::crc_bytes: type, length, then the payload
crc_bytes(p) == << p.packet_type, p.data_len >> \o data(p)

\* const LOOKUP_TABLE: [u16; 256], indexed from 0 in the source
LOOKUP_TABLE == <<
    0, 4489, 8978, 12955, 17956, 22445, 25910, 29887,
    35912, 40385, 44890, 48851, 51820, 56293, 59774, 63735,
    4225, 264, 13203, 8730, 22181, 18220, 30135, 25662,
    40137, 36160, 49115, 44626, 56045, 52068, 63999, 59510,
    8450, 12427, 528, 5017, 26406, 30383, 17460, 21949,
    44362, 48323, 36440, 40913, 60270, 64231, 51324, 55797,
    12675, 8202, 4753, 792, 30631, 26158, 21685, 17724,
    48587, 44098, 40665, 36688, 64495, 60006, 55549, 51572,
    16900, 21389, 24854, 28831, 1056, 5545, 10034, 14011,
    52812, 57285, 60766, 64727, 34920, 39393, 43898, 47859,
    21125, 17164, 29079, 24606, 5281, 1320, 14259, 9786,
    57037, 53060, 64991, 60502, 39145, 35168, 48123, 43634,
    25350, 29327, 16404, 20893, 9506, 13483, 1584, 6073,
    61262, 65223, 52316, 56789, 43370, 47331, 35448, 39921,
    29575, 25102, 20629, 16668, 13731, 9258, 5809, 1848,
    65487, 60998, 56541, 52564, 47595, 43106, 39673, 35696,
    33800, 38273, 42778, 46739, 49708, 54181, 57662, 61623,
    2112, 6601, 11090, 15067, 20068, 24557, 28022, 31999,
    38025, 34048, 47003, 42514, 53933, 49956, 61887, 57398,
    6337, 2376, 15315, 10842, 24293, 20332, 32247, 27774,
    42250, 46211, 34328, 38801, 58158, 62119, 49212, 53685,
    10562, 14539, 2640, 7129, 28518, 32495, 19572, 24061,
    46475, 41986, 38553, 34576, 62383, 57894, 53437, 49460,
    14787, 10314, 6865, 2904, 32743, 28270, 23797, 19836,
    50700, 55173, 58654, 62615, 32808, 37281, 41786, 45747,
    19012, 23501, 26966, 30943, 3168, 7657, 12146, 16123,
    54925, 50948, 62879, 58390, 37033, 33056, 46011, 41522,
    23237, 19276, 31191, 26718, 7393, 3432, 16371, 11898,
    59150, 63111, 50204, 54677, 41258, 45219, 33336, 37809,
    27462, 31439, 18516, 23005, 11618, 15595, 3696, 8185,
    63375, 58886, 54429, 50452, 45483, 40994, 37561, 33584,
    31687, 27214, 22741, 18780, 15843, 11370, 7921, 3960
>>

\* for b in bytes { crc = (crc >> 8) ^ LOOKUP_TABLE[(crc as u8 ^ b) as usize]; }
\* reg is the u16 register crc, rest the bytes not yet taken.
crc_table_loop(reg, bytes) ==
    LET turn[r \in U16, rest \in Seq(Byte)] ==
            IF rest = << >> THEN r
            ELSE turn[Xor(r \div 256, LOOKUP_TABLE[Xor(r % 256, Head(rest)) + 1]),
                      Tail(rest)]
    IN turn[reg, bytes]

\* A slip in the table loop: the register is returned without the final
\* complement.
calculate_crc_nocomplement(p) == to_le_bytes(crc_table_loop(65535, crc_bytes(p)))

\* Packet::calculate_crc
calculate_crc(p) == to_le_bytes(Not16(crc_table_loop(65535, crc_bytes(p))))

\* Packet::set_crc
set_crc(p) == [p EXCEPT !.crc = calculate_crc(p), !.trusted_crc = TRUE]

\* A slip in crc: the stored CRC is returned whether trusted or not.
crc_cached(p) == p.crc

\* Packet::crc: the cached CRC when trusted, a fresh one otherwise
crc(p) == IF p.trusted_crc THEN p.crc ELSE calculate_crc(p)

\* A slip in check_crc: comparing with crc(), which recomputes the CRC of an
\* untrusted (received) packet, so that the comparison cannot fail.
check_crc_recomputed(p) == calculate_crc(p) = crc(p)

\* Packet::check_crc
check_crc(p) == calculate_crc(p) = p.crc

\* A slip in Packet::new: no assertion on the length of the data.
new_assert_off(d) == TRUE

\* assert!(data.len() <= MAX_DATA_LEN, "packet data is too large")
new_assert(d) == Len(d) <= MAX_DATA_LEN

\* Packet::new, for data.len() <= MAX_DATA_LEN (the assertion of line 37)
Packet_new(ptype, d) ==
    set_crc([packet_type |-> ptype,
             data_len    |-> Len(d),
             data_array  |-> d \o Zeros(MAX_DATA_LEN - Len(d)),
             crc         |-> << 0, 0 >>,
             trusted_crc |-> FALSE])

\* A slip: #[derive(PartialEq)], which compares every field.
PacketEq_derived(p, q) == p = q

\* impl PartialEq for Packet
PacketEq(p, q) == p.packet_type = q.packet_type /\ data(p) = data(q)

(***************************************************************************)
(* The reference CRC of the cross-check test (codec.rs:217-232).           *)
(***************************************************************************)
\* for _ in 0..8 { ... }: n iterations left
alternate_crc_bits(reg, sr, n) ==
    LET turn[r \in U16, b \in U16, k \in 0..8] ==
            IF k = 0 THEN r
            ELSE IF Xor(r, b) % 2 # 0
                 THEN turn[Xor(r \div 2, 33800), b \div 2, k - 1]
                 ELSE turn[r \div 2, b \div 2, k - 1]
    IN turn[reg, sr, n]

\* for b in bytes.into_iter() { let mut sr = b as u16; ... }
alternate_crc_loop(reg, bytes) ==
    LET turn[r \in U16, rest \in Seq(Byte)] ==
            IF rest = << >> THEN r
            ELSE turn[alternate_crc_bits(r, Head(rest), 8), Tail(rest)]
    IN turn[reg, bytes]

\* tests::cross_check_crc::alternate_crc (0x8408 = 33800)
alternate_crc(bytes) == to_le_bytes(Not16(alternate_crc_loop(65535, bytes)))

(***************************************************************************)
(* PacketCodec (codec.rs:140-207).                                         *)
(***************************************************************************)
NoPacket == [packet_type |-> 0, data_len |-> 0, data_array |-> << >>,
             crc |-> << >>, trusted_crc |-> FALSE]

\* A slip in read_packet: the length byte is not checked against
\* MAX_DATA_LEN before the payload is read.
read_packet_unchecked(s) ==
    IF Len(s) < 1 THEN
        [kind |-> "Io", packet |-> NoPacket, consumed |-> 0]
    ELSE IF Len(s) < 2 THEN
        [kind |-> "Io", packet |-> NoPacket, consumed |-> 1]
    ELSE IF Len(s) < 2 + s[2] + 2 THEN
        [kind |-> "Io", packet |-> NoPacket, consumed |-> Len(s)]
    ELSE
        [kind     |-> "Ok",
         packet   |-> [packet_type |-> s[1],
                       data_len    |-> s[2],
                       data_array  |-> SubSeq(s, 3, 2 + s[2])
                                         \o Zeros(MAX_DATA_LEN - s[2]),
                       crc         |-> SubSeq(s, 3 + s[2], 4 + s[2]),
                       trusted_crc |-> FALSE],
         consumed |-> 4 + s[2]]

\* A slip in read_packet: the CRC is verified while decoding, and a frame
\* whose CRC does not match is refused as invalid.
read_packet_crc_checked(s) ==
    IF Len(s) < 1 THEN
        [kind |-> "Io", packet |-> NoPacket, consumed |-> 0]
    ELSE IF Len(s) < 2 THEN
        [kind |-> "Io", packet |-> NoPacket, consumed |-> 1]
    ELSE IF s[2] > MAX_DATA_LEN THEN
        [kind |-> "InvalidPacket", packet |-> NoPacket, consumed |-> 2]
    ELSE IF Len(s) < 2 + s[2] + 2 THEN
        [kind |-> "Io", packet |-> NoPacket, consumed |-> Len(s)]
    ELSE IF SubSeq(s, 3 + s[2], 4 + s[2])
              # calculate_crc([packet_type |-> s[1],
                               data_len    |-> s[2],
                               data_array  |-> SubSeq(s, 3, 2 + s[2])
                                                 \o Zeros(MAX_DATA_LEN - s[2]),
                               crc         |-> << >>,
                               trusted_crc |-> FALSE]) THEN
        [kind |-> "InvalidPacket", packet |-> NoPacket, consumed |-> 4 + s[2]]
    ELSE
        [kind     |-> "Ok",
         packet   |-> [packet_type |-> s[1],
                       data_len    |-> s[2],
                       data_array  |-> SubSeq(s, 3, 2 + s[2])
                                         \o Zeros(MAX_DATA_LEN - s[2]),
                       crc         |-> SubSeq(s, 3 + s[2], 4 + s[2]),
                       trusted_crc |-> FALSE],
         consumed |-> 4 + s[2]]

\* PacketCodec::read_packet on the bytes s the reader holds.  kind is "Ok",
\* "InvalidPacket", or "Io" when s ends before a read_exact is satisfied;
\* consumed is the number of bytes taken from s.
read_packet(s) ==
    IF Len(s) < 1 THEN
        [kind |-> "Io", packet |-> NoPacket, consumed |-> 0]
    ELSE IF Len(s) < 2 THEN
        [kind |-> "Io", packet |-> NoPacket, consumed |-> 1]
    ELSE IF s[2] > MAX_DATA_LEN THEN
        [kind |-> "InvalidPacket", packet |-> NoPacket, consumed |-> 2]
    ELSE IF Len(s) < 2 + s[2] + 2 THEN
        [kind |-> "Io", packet |-> NoPacket, consumed |-> Len(s)]
    ELSE
        [kind     |-> "Ok",
         packet   |-> [packet_type |-> s[1],
                       data_len    |-> s[2],
                       data_array  |-> SubSeq(s, 3, 2 + s[2])
                                         \o Zeros(MAX_DATA_LEN - s[2]),
                       crc         |-> SubSeq(s, 3 + s[2], 4 + s[2]),
                       trusted_crc |-> FALSE],
         consumed |-> 4 + s[2]]

\* A slip in write_packet: the CRC written high byte first.
write_packet_crc_be(p) ==
    IF p.data_len > MAX_DATA_LEN
    THEN [kind |-> "InvalidLength", bytes |-> << >>]
    ELSE [kind  |-> "Ok",
          bytes |-> << p.packet_type, p.data_len >> \o data(p)
                      \o << crc(p)[2], crc(p)[1] >>]

\* PacketCodec::write_packet: the bytes handed to the writer
write_packet(p) ==
    IF p.data_len > MAX_DATA_LEN
    THEN [kind |-> "InvalidLength", bytes |-> << >>]
    ELSE [kind  |-> "Ok",
          bytes |-> << p.packet_type, p.data_len >> \o data(p) \o crc(p)]

(***************************************************************************)
(* Report and Key (lib.rs:297-346), Error (lib.rs:361-407).                *)
(***************************************************************************)
\* Option<T>: None is << >>, Some(x) is << x >>
None == << >>
Some(x) == << x >>

\* The key of each sub-code, lib.rs:313-326
KeyOf(d) ==
    CASE d \in {1, 7}  -> "Up"
      [] d \in {2, 8}  -> "Down"
      [] d \in {3, 9}  -> "Left"
      [] d \in {4, 10} -> "Right"
      [] d \in {5, 11} -> "Enter"
      [] d \in {6, 12} -> "Exit"

\* A slip in from_raw: every frame of class 0b10 taken for a key activity
\* report, whatever its type.
from_raw_any_class(p) ==
    IF packet_type(p) \div 64 = 2 THEN
        IF data(p) = << >> THEN None
        ELSE IF data(p)[1] \in 1..12
             THEN Some([key |-> KeyOf(data(p)[1]), pressed |-> data(p)[1] <= 6])
             ELSE None
    ELSE None

\* Report::from_raw
from_raw(p) ==
    IF packet_type(p) = 128 THEN
        IF data(p) = << >> THEN None
        ELSE IF data(p)[1] \in 1..12
             THEN Some([key |-> KeyOf(data(p)[1]), pressed |-> data(p)[1] <= 6])
             ELSE None
    ELSE None

\* A slip in the conversion: every read failure becomes InvalidRead.
ErrorFromRead_all_invalid(kind) ==
    CASE kind = "Io"            -> "InvalidRead"
      [] kind = "InvalidPacket" -> "InvalidRead"

\* impl From<ReadPacketError> for Error
ErrorFromRead(kind) ==
    CASE kind = "Io"            -> "Io"
      [] kind = "InvalidPacket" -> "InvalidRead"

\* A slip in recv: a CRC mismatch reported as an I/O failure instead of
\* Error::InvalidRead.
recv_crc_as_io(s) ==
    LET r == read_packet(s) IN
    IF r.kind # "Ok"
    THEN [kind |-> ErrorFromRead(r.kind), packet |-> NoPacket, consumed |-> r.consumed]
    ELSE IF check_crc(r.packet)
         THEN [kind |-> "Ok", packet |-> r.packet, consumed |-> r.consumed]
         ELSE [kind |-> "Io", packet |-> NoPacket, consumed |-> r.consumed]

\* Device::recv on the unread bytes s of the serial port: read_packet, then
\* check_crc.  kind is "Ok", "InvalidRead" or "Io".
recv(s) ==
    LET r == read_packet(s) IN
    IF r.kind # "Ok"
    THEN [kind |-> ErrorFromRead(r.kind), packet |-> NoPacket, consumed |-> r.consumed]
    ELSE IF check_crc(r.packet)
         THEN [kind |-> "Ok", packet |-> r.packet, consumed |-> r.consumed]
         ELSE [kind |-> "InvalidRead", packet |-> NoPacket, consumed |-> r.consumed]

\* s without its first n bytes
Drop(s, n) == SubSeq(s, n + 1, Len(s))

(***************************************************************************)
(* State.                                                                  *)
(***************************************************************************)
VARIABLES
    \* --- the Device and its serial line (Spec) ---
    rx,             \* bytes the serial port holds unread (bytes_to_read = Len(rx))
    line,           \* bytes the display module has sent that have not arrived yet
    tx,             \* bytes the current call has written to the serial port
                    \* (SpecStream: all the bytes the writer has written)
    report_buffer,  \* Device::report_buffer, front first
    pc,             \* where the caller is: "idle", "transact" (in the loop of
                    \* transact, about to call recv) or "poll" (in the while
                    \* loop of poll_report)
    cmd,            \* the packet passed to the transact in progress or last made
    result,         \* what the last call returned
    q0,             \* report_buffer as it was when the current call began
    seen,           \* the packets recv has returned during the current call
                    \* (SpecStream: the packets read_packet has returned)
    sent,           \* how many frames the display module has sent
    after_error,    \* the call in progress or last made is a transact begun
                    \* right after a transact that returned ReturnedError
    \* --- the codec on its own (SpecCodec) ---
    stage,          \* "off", "start", "panicked", "built", "checked",
                    \* "written", "read", "rewritten"; in SpecStream
                    \* "stream" (frames are written) and "reading"
    fault,          \* what was done to the written bytes: "none", "flip",
                    \* "crc", "type", "badlen"
    packet,         \* the Packet built by Packet::new
    buffer,         \* the Vec<u8> the packet was written to (SpecStream:
                    \* the bytes the reader has not read yet)
    decoded,        \* what read_packet returned for buffer
    alt             \* what alternate_crc returned for the packet's crc_bytes

vars == << rx, line, tx, report_buffer, pc, cmd, result, q0, seen, sent,
           after_error, stage, fault, packet, buffer, decoded, alt >>

NoResult == [kind |-> "Pending", packet |-> NoPacket, report |-> << >>]
NoDecoded == [kind |-> "Pending", packet |-> NoPacket, consumed |-> 0]

\* Device::new: an open port, an empty report buffer
EngineInit ==
    /\ rx = << >>
    /\ line = << >>
    /\ tx = << >>
    /\ report_buffer = << >>
    /\ pc = "idle"
    /\ cmd = NoPacket
    /\ result = NoResult
    /\ q0 = << >>
    /\ seen = << >>
    /\ sent = 0
    /\ after_error = FALSE

CodecIdle ==
    /\ packet = NoPacket
    /\ buffer = << >>
    /\ decoded = NoDecoded
    /\ alt = << >>
    /\ fault = "none"

(***************************************************************************)
(* The display module's side of the serial line.                           *)
(***************************************************************************)
\* Frames sent by the display module in the model, at most
MaxFrames == 3

\* The bytes of a frame as the protocol lays them out
Encode(ptype, d) == write_packet(Packet_new(ptype, d)).bytes

\* s with bit b (0 = least significant) of its i-th byte flipped
FlipBit(s, i, b) ==
    [s EXCEPT ![i] = IF (s[i] \div (2 ^ b)) % 2 = 1
                     THEN s[i] - 2 ^ b ELSE s[i] + 2 ^ b]

\* Well-formed frames the display module sends: responses to commands 0x06
\* and 0x1F, a class-0 frame, key activity reports (known, unknown sub-code,
\* empty) and a class-0b10 frame of another type.
DeviceFrames ==
    { << 70, << 9 >> >>,     \* 0x46: normal response to 0x06
      << 95, << >> >>,       \* 0x5F: normal response to 0x1F
      << 198, << >> >>,      \* 0xC6: error response to 0x06
      << 6, << >> >>,        \* 0x06: class 0b00
      << 128, << 1 >> >>,    \* 0x80: key Up pressed
      << 128, << 8 >> >>,    \* 0x80: key Down released
      << 128, << 13 >> >>,   \* 0x80: unknown sub-code
      << 128, << >> >>,      \* 0x80: no sub-code
      << 134, << 1 >> >> }   \* 0x86: class 0b10, code 6

DeviceWire == { Encode(f[1], f[2]) : f \in DeviceFrames }

\* The well-formed frames sent on the line that also damages and splits
\* frames (SpecLine).
LineFrames ==
    { << 70, << 9 >> >>, << 198, << >> >>, << 128, << 1 >> >>, << 128, << 8 >> >> }

LineWire == { Encode(f[1], f[2]) : f \in LineFrames }

\* Damaged frames: a payload bit flipped in transit, and a length byte that
\* is not a length (23, 255).
DamagedWire ==
    { FlipBit(Encode(70, << 9 >>), 3, 0),
      [Encode(70, << 9 >>) EXCEPT ![2] = 23],
      [Encode(128, << 1 >>) EXCEPT ![2] = 255] }

\* Frames that may arrive in two pieces, and where they are cut
SplitWire == { Encode(128, << 1 >>) }
SplitPoints == {1, 3}

\* The display module sends bytes, of which the first k arrive at once.
Deliver(bytes, k) ==
    /\ rx' = rx \o SubSeq(bytes, 1, k)
    /\ line' = SubSeq(bytes, k + 1, Len(bytes))
    /\ sent' = sent + 1
    /\ UNCHANGED << tx, report_buffer, pc, cmd, result, q0, seen, after_error >>
    /\ UNCHANGED << stage, fault, packet, buffer, decoded, alt >>

\* A whole frame arrives (Spec).
DeviceSend ==
    /\ sent < MaxFrames
    /\ line = << >>
    /\ \E bytes \in DeviceWire : Deliver(bytes, Len(bytes))

\* A whole frame arrives (SpecLine).
LineSend ==
    /\ sent < MaxFrames
    /\ line = << >>
    /\ \E bytes \in LineWire : Deliver(bytes, Len(bytes))

\* A damaged frame arrives.
LineSendDamaged ==
    /\ sent < MaxFrames
    /\ line = << >>
    /\ \E bytes \in DamagedWire : Deliver(bytes, Len(bytes))

\* The first k bytes of a frame arrive, the rest is still on its way.
LineSendSplit ==
    /\ sent < MaxFrames
    /\ line = << >>
    /\ \E bytes \in SplitWire, k \in SplitPoints :
         k < Len(bytes) /\ Deliver(bytes, k)

\* The rest of a frame arrives.
Arrive ==
    /\ line # << >>
    /\ rx' = rx \o line
    /\ line' = << >>
    /\ UNCHANGED << tx, report_buffer, pc, cmd, result, q0, seen, sent, after_error >>
    /\ UNCHANGED << stage, fault, packet, buffer, decoded, alt >>

(***************************************************************************)
(* Device (lib.rs:30-90, 247-259).                                         *)
(***************************************************************************)
\* The commands the caller sends: clear_screen (0x06) and set_text (0x1F)
Commands == { Packet_new(6, << >>), Packet_new(31, << 0, 0, 65 >>) }

\* let resp_class = response.packet_type() >> 6;
resp_class(response) == packet_type(response) \div 64

\* let resp_code = response.packet_type() & 0x3f;
resp_code(response) == packet_type(response) % 64

\* resp_class == 0b01 && resp_code == packet.packet_type()
IsNormalResponse(command, response) ==
    resp_class(response) = 1 /\ resp_code(response) = packet_type(command)

\* resp_class == 0b11 && resp_code == packet.packet_type()
IsErrorResponse(command, response) ==
    resp_class(response) = 3 /\ resp_code(response) = packet_type(command)

\* What a call returns
Returned(kind, p, report) == [kind |-> kind, packet |-> p, report |-> report]

\* A slip in transact: the class alone decides a normal response, the code
\* is not compared.
transact_turn_any_code(command, response, queue) ==
    IF resp_class(response) = 2 THEN
        [done |-> FALSE, result |-> NoResult, queue |-> queue \o from_raw(response)]
    ELSE IF resp_class(response) = 1 THEN
        [done |-> TRUE, result |-> Returned("Ok", response, None), queue |-> queue]
    ELSE IF IsErrorResponse(command, response) THEN
        [done |-> TRUE, result |-> Returned("ReturnedError", NoPacket, None),
         queue |-> queue]
    ELSE
        [done |-> FALSE, result |-> NoResult, queue |-> queue]

\* A slip in transact: the error class tested as 0b10, which the report
\* branch has already taken.
transact_turn_error_class(command, response, queue) ==
    IF resp_class(response) = 2 THEN
        [done |-> FALSE, result |-> NoResult, queue |-> queue \o from_raw(response)]
    ELSE IF IsNormalResponse(command, response) THEN
        [done |-> TRUE, result |-> Returned("Ok", response, None), queue |-> queue]
    ELSE IF resp_class(response) = 2 /\ resp_code(response) = packet_type(command) THEN
        [done |-> TRUE, result |-> Returned("ReturnedError", NoPacket, None),
         queue |-> queue]
    ELSE
        [done |-> FALSE, result |-> NoResult, queue |-> queue]

\* The strict variant of transact: a frame that is neither a report nor the
\* response fails the call.
transact_turn_strict(command, response, queue) ==
    IF resp_class(response) = 2 THEN
        [done |-> FALSE, result |-> NoResult, queue |-> queue \o from_raw(response)]
    ELSE IF IsNormalResponse(command, response) THEN
        [done |-> TRUE, result |-> Returned("Ok", response, None), queue |-> queue]
    ELSE IF IsErrorResponse(command, response) THEN
        [done |-> TRUE, result |-> Returned("ReturnedError", NoPacket, None),
         queue |-> queue]
    ELSE
        [done |-> TRUE, result |-> Returned("InvalidRead", NoPacket, None),
         queue |-> queue]

\* A slip in transact: push_front for push_back.
transact_turn_push_front(command, response, queue) ==
    IF resp_class(response) = 2 THEN
        [done |-> FALSE, result |-> NoResult, queue |-> from_raw(response) \o queue]
    ELSE IF IsNormalResponse(command, response) THEN
        [done |-> TRUE, result |-> Returned("Ok", response, None), queue |-> queue]
    ELSE IF IsErrorResponse(command, response) THEN
        [done |-> TRUE, result |-> Returned("ReturnedError", NoPacket, None),
         queue |-> queue]
    ELSE
        [done |-> FALSE, result |-> NoResult, queue |-> queue]

\* A slip in transact: a report received while waiting for the response is
\* dropped instead of queued.
transact_turn_drop_report(command, response, queue) ==
    IF resp_class(response) = 2 THEN
        [done |-> FALSE, result |-> NoResult, queue |-> queue]
    ELSE IF IsNormalResponse(command, response) THEN
        [done |-> TRUE, result |-> Returned("Ok", response, None), queue |-> queue]
    ELSE IF IsErrorResponse(command, response) THEN
        [done |-> TRUE, result |-> Returned("ReturnedError", NoPacket, None),
         queue |-> queue]
    ELSE
        [done |-> FALSE, result |-> NoResult, queue |-> queue]

\* A slip in transact: the responses are tested before the reports, and the
\* error class is tested by its high bit alone, which class 0b10 has too.
transact_turn_response_first(command, response, queue) ==
    IF IsNormalResponse(command, response) THEN
        [done |-> TRUE, result |-> Returned("Ok", response, None), queue |-> queue]
    ELSE IF resp_class(response) >= 2 /\ resp_code(response) = packet_type(command) THEN
        [done |-> TRUE, result |-> Returned("ReturnedError", NoPacket, None),
         queue |-> queue]
    ELSE IF resp_class(response) = 2 THEN
        [done |-> FALSE, result |-> NoResult, queue |-> queue \o from_raw(response)]
    ELSE
        [done |-> FALSE, result |-> NoResult, queue |-> queue]

\* A slip in the loop: the error branch clears the report buffer before it
\* returns.
transact_turn_error_clears(command, response, queue) ==
    IF resp_class(response) = 2 THEN
        [done |-> FALSE, result |-> NoResult, queue |-> queue \o from_raw(response)]
    ELSE IF IsNormalResponse(command, response) THEN
        [done |-> TRUE, result |-> Returned("Ok", response, None), queue |-> queue]
    ELSE IF IsErrorResponse(command, response) THEN
        [done |-> TRUE, result |-> Returned("ReturnedError", NoPacket, None),
         queue |-> << >>]
    ELSE
        [done |-> FALSE, result |-> NoResult, queue |-> queue]

\* The body of the loop of transact after recv (lib.rs:74-88): what it does
\* with the response, given the report buffer.  done: the call returns.
transact_turn(command, response, queue) ==
    IF resp_class(response) = 2 THEN
        \* if let Some(report) = Report::from_raw(&response) { push_back }
        [done |-> FALSE, result |-> NoResult, queue |-> queue \o from_raw(response)]
    ELSE IF IsNormalResponse(command, response) THEN
        [done |-> TRUE, result |-> Returned("Ok", response, None), queue |-> queue]
    ELSE IF IsErrorResponse(command, response) THEN
        [done |-> TRUE, result |-> Returned("ReturnedError", NoPacket, None),
         queue |-> queue]
    ELSE
        \* log::warn!("unexpected packet received")
        [done |-> FALSE, result |-> NoResult, queue |-> queue]

\* Device::send then the entry of the loop: the command is written.
TransactSend ==
    /\ pc = "idle"
    /\ \E c \in Commands :
         /\ cmd' = c
         /\ tx' = write_packet(c).bytes
    /\ pc' = "transact"
    /\ result' = NoResult
    /\ q0' = report_buffer
    /\ seen' = << >>
    /\ after_error' = (result.kind = "ReturnedError")
    /\ UNCHANGED << rx, line, report_buffer, sent >>
    /\ UNCHANGED << stage, fault, packet, buffer, decoded, alt >>

\* How many bytes of the frame of c are out when the first, the second or
\* the third write_all of write_packet fails (codec.rs:197-200)
WriteFailurePoints(c) == { 0, 2, 2 + c.data_len }

\* A slip in transact: the result of send is dropped (let _ = self.send(..)),
\* so the loop is entered though the command was not written.
TransactSendFails_ignored ==
    /\ pc = "idle"
    /\ \E c \in Commands :
         /\ cmd' = c
         /\ \E n \in WriteFailurePoints(c) :
              tx' = SubSeq(write_packet(c).bytes, 1, n)
    /\ pc' = "transact"
    /\ result' = NoResult
    /\ q0' = report_buffer
    /\ seen' = << >>
    /\ after_error' = (result.kind = "ReturnedError")
    /\ UNCHANGED << rx, line, report_buffer, sent >>
    /\ UNCHANGED << stage, fault, packet, buffer, decoded, alt >>

\* Device::send failing in transact (self.send(packet)?): one of the
\* write_all calls of write_packet fails, the n bytes of the calls before it
\* are out, WritePacketError::Io becomes Error::Io and transact returns it.
TransactSendFails ==
    /\ pc = "idle"
    /\ \E c \in Commands :
         /\ cmd' = c
         /\ \E n \in WriteFailurePoints(c) :
              tx' = SubSeq(write_packet(c).bytes, 1, n)
    /\ pc' = "idle"
    /\ result' = Returned("Io", NoPacket, None)
    /\ q0' = report_buffer
    /\ seen' = << >>
    /\ after_error' = (result.kind = "ReturnedError")
    /\ UNCHANGED << rx, line, report_buffer, sent >>
    /\ UNCHANGED << stage, fault, packet, buffer, decoded, alt >>

\* A slip in transact: the port's input buffer is cleared when the display
\* module answers with an error, so whatever followed the error frame is
\* lost with it.
TransactLoop_flush ==
    /\ pc = "transact"
    /\ recv(rx).kind # "Io"
    /\ \E r \in { recv(rx) } :
       IF r.kind = "InvalidRead" THEN
           /\ rx' = Drop(rx, r.consumed)
           /\ result' = Returned("InvalidRead", NoPacket, None)
           /\ pc' = "idle"
           /\ UNCHANGED << report_buffer, seen >>
       ELSE
           LET t == transact_turn(cmd, r.packet, report_buffer) IN
           /\ rx' = IF t.result.kind = "ReturnedError"
                    THEN << >> ELSE Drop(rx, r.consumed)
           /\ seen' = Append(seen, r.packet)
           /\ report_buffer' = t.queue
           /\ result' = t.result
           /\ pc' = IF t.done THEN "idle" ELSE "transact"
    /\ UNCHANGED << line, tx, cmd, q0, sent, after_error >>
    /\ UNCHANGED << stage, fault, packet, buffer, decoded, alt >>

\* One turn of the loop of transact, once the port holds enough bytes for
\* recv to return without waiting.  r is what recv returned.
TransactLoop ==
    /\ pc = "transact"
    /\ recv(rx).kind # "Io"
    /\ \E r \in { recv(rx) } :
       /\ rx' = Drop(rx, r.consumed)
       /\ IF r.kind = "InvalidRead" THEN
              \* let response = self.recv()?;
              /\ result' = Returned("InvalidRead", NoPacket, None)
              /\ pc' = "idle"
              /\ UNCHANGED << report_buffer, seen >>
          ELSE
              LET t == transact_turn(cmd, r.packet, report_buffer) IN
              /\ seen' = Append(seen, r.packet)
              /\ report_buffer' = t.queue
              /\ result' = t.result
              /\ pc' = IF t.done THEN "idle" ELSE "transact"
    /\ UNCHANGED << line, tx, cmd, q0, sent, after_error >>
    /\ UNCHANGED << stage, fault, packet, buffer, decoded, alt >>

\* A slip in transact: a read that times out is tried again instead of
\* ending the call.
TransactReadTimeout_retry ==
    /\ pc = "transact"
    /\ recv(rx).kind = "Io"
    /\ rx' = Drop(rx, recv(rx).consumed)
    /\ UNCHANGED << line, tx, report_buffer, pc, cmd, result, q0, seen, sent,
                    after_error >>
    /\ UNCHANGED << stage, fault, packet, buffer, decoded, alt >>

\* recv in transact waits for bytes that do not come: the port's read times
\* out (250 ms, lib.rs:45), read_exact fails and the bytes it took are lost.
TransactReadTimeout ==
    /\ pc = "transact"
    /\ recv(rx).kind = "Io"
    /\ rx' = Drop(rx, recv(rx).consumed)
    /\ result' = Returned("Io", NoPacket, None)
    /\ pc' = "idle"
    /\ UNCHANGED << line, tx, report_buffer, cmd, q0, seen, sent, after_error >>
    /\ UNCHANGED << stage, fault, packet, buffer, decoded, alt >>

\* A slip in poll_report: pop_back for pop_front.
pop_back(queue) ==
    IF queue = << >> THEN [value |-> None, rest |-> queue]
    ELSE [value |-> Some(queue[Len(queue)]),
          rest  |-> SubSeq(queue, 1, Len(queue) - 1)]

\* self.report_buffer.pop_front() (lib.rs:248)
pop_front(queue) ==
    IF queue = << >> THEN [value |-> None, rest |-> queue]
    ELSE [value |-> Some(Head(queue)), rest |-> Tail(queue)]

\* Device::poll_report up to the while loop: the front of the buffer, if any.
PollReport ==
    /\ pc = "idle"
    /\ q0' = report_buffer
    /\ seen' = << >>
    /\ tx' = << >>
    /\ cmd' = NoPacket
    /\ LET front == pop_front(report_buffer) IN
       /\ report_buffer' = front.rest
       /\ IF front.value # None THEN
              /\ result' = Returned("Some", NoPacket, front.value)
              /\ pc' = "idle"
          ELSE
              /\ result' = NoResult
              /\ pc' = "poll"
    /\ after_error' = FALSE
    /\ UNCHANGED << rx, line, sent >>
    /\ UNCHANGED << stage, fault, packet, buffer, decoded, alt >>

\* poll_report with an if in place of the while: one frame per call
PollLoop_one_frame ==
    /\ pc = "poll"
    /\ Len(rx) > 0 => recv(rx).kind # "Io"
    /\ IF Len(rx) = 0 THEN
           /\ result' = Returned("None", NoPacket, None)
           /\ pc' = "idle"
           /\ UNCHANGED << rx, seen >>
       ELSE
           LET r == recv(rx) IN
           /\ rx' = Drop(rx, r.consumed)
           /\ pc' = "idle"
           /\ IF r.kind = "InvalidRead" THEN
                  /\ result' = Returned("InvalidRead", NoPacket, None)
                  /\ UNCHANGED seen
              ELSE
                  /\ seen' = Append(seen, r.packet)
                  /\ result' = Returned(IF from_raw(r.packet) # None
                                        THEN "Some" ELSE "None",
                                        NoPacket, from_raw(r.packet))
    /\ UNCHANGED << line, tx, report_buffer, cmd, q0, sent, after_error >>
    /\ UNCHANGED << stage, fault, packet, buffer, decoded, alt >>

\* poll_report swallowing the error of recv: a frame that fails to decode
\* ends the call with None.
PollLoop_swallow ==
    /\ pc = "poll"
    /\ Len(rx) > 0 => recv(rx).kind # "Io"
    /\ IF Len(rx) = 0 THEN
           /\ result' = Returned("None", NoPacket, None)
           /\ pc' = "idle"
           /\ UNCHANGED << rx, seen >>
       ELSE
           LET r == recv(rx) IN
           /\ rx' = Drop(rx, r.consumed)
           /\ IF r.kind = "InvalidRead" THEN
                  /\ result' = Returned("None", NoPacket, None)
                  /\ pc' = "idle"
                  /\ UNCHANGED seen
              ELSE
                  /\ seen' = Append(seen, r.packet)
                  /\ IF from_raw(r.packet) # None THEN
                         /\ result' = Returned("Some", NoPacket, from_raw(r.packet))
                         /\ pc' = "idle"
                     ELSE
                         UNCHANGED << pc, result >>
    /\ UNCHANGED << line, tx, report_buffer, cmd, q0, sent, after_error >>
    /\ UNCHANGED << stage, fault, packet, buffer, decoded, alt >>

\* One turn of the while loop of poll_report, once recv can return without
\* waiting (or bytes_to_read is 0).
PollLoop ==
    /\ pc = "poll"
    /\ Len(rx) > 0 => recv(rx).kind # "Io"
    /\ IF Len(rx) = 0 THEN
           \* while self.codec.inner().bytes_to_read()? > 0 ... Ok(None)
           /\ result' = Returned("None", NoPacket, None)
           /\ pc' = "idle"
           /\ UNCHANGED << rx, seen >>
       ELSE
           LET r == recv(rx) IN
           /\ rx' = Drop(rx, r.consumed)
           /\ IF r.kind = "InvalidRead" THEN
                  /\ result' = Returned("InvalidRead", NoPacket, None)
                  /\ pc' = "idle"
                  /\ UNCHANGED seen
              ELSE
                  /\ seen' = Append(seen, r.packet)
                  /\ IF from_raw(r.packet) # None THEN
                         /\ result' = Returned("Some", NoPacket, from_raw(r.packet))
                         /\ pc' = "idle"
                     ELSE
                         UNCHANGED << pc, result >>
    /\ UNCHANGED << line, tx, report_buffer, cmd, q0, sent, after_error >>
    /\ UNCHANGED << stage, fault, packet, buffer, decoded, alt >>

\* recv in poll_report waits for the rest of a frame that does not come: the
\* read times out and the bytes it took are lost.
PollReadTimeout ==
    /\ pc = "poll"
    /\ Len(rx) > 0
    /\ recv(rx).kind = "Io"
    /\ rx' = Drop(rx, recv(rx).consumed)
    /\ result' = Returned("Io", NoPacket, None)
    /\ pc' = "idle"
    /\ UNCHANGED << line, tx, report_buffer, cmd, q0, seen, sent, after_error >>
    /\ UNCHANGED << stage, fault, packet, buffer, decoded, alt >>

Init ==
    /\ EngineInit
    /\ CodecIdle
    /\ stage = "off"

\* The caller's calls and their steps
Host ==
    \/ TransactSend
    \/ TransactLoop
    \/ TransactReadTimeout
    \/ PollReport
    \/ PollLoop

\* A Device on a line that delivers whole, well-formed frames
Next ==
    \/ DeviceSend
    \/ Host

Spec == Init /\ [][Next]_vars

\* A Device on a line that also damages frames, delivers them in pieces and
\* fails writes
NextLine ==
    \/ LineSend
    \/ LineSendDamaged
    \/ LineSendSplit
    \/ Arrive
    \/ Host
    \/ PollReadTimeout
    \/ TransactSendFails

SpecLine == Init /\ [][NextLine]_vars

\* A caller that only transacts, on the line of SpecLine, with the progress
\* the code makes by itself: transact is a blocking loop, so a recv that can
\* return does return, and a recv that waits for bytes ends when the port's
\* read timeout expires.
NextTransact ==
    \/ LineSend
    \/ LineSendDamaged
    \/ LineSendSplit
    \/ Arrive
    \/ TransactSend
    \/ TransactLoop
    \/ TransactReadTimeout

SpecTransactFair ==
    /\ Init
    /\ [][NextTransact]_vars
    /\ WF_vars(TransactLoop)
    /\ WF_vars(TransactReadTimeout)

(***************************************************************************)
(* One PacketCodec writes several packets to a byte stream, another reads   *)
(* them back one read_packet call at a time.                                *)
(***************************************************************************)
\* Arguments of Packet::new for the packets written: payloads of 0, 1 and 3
\* bytes
StreamInputs == { << 0, << >> >>, << 128, << 1 >> >>, << 31, << 0, 0, 65 >> >> }

InitStream ==
    /\ EngineInit
    /\ CodecIdle
    /\ stage = "stream"

\* writer.write_packet(&Packet::new(..)): the frame is appended to the
\* stream; it reaches the reader as written, or with one bit of its CRC
\* flipped.
StreamWrite ==
    /\ stage = "stream"
    /\ sent < MaxFrames
    /\ \E in \in StreamInputs, damaged \in BOOLEAN :
         LET w == write_packet(Packet_new(in[1], in[2])) IN
         /\ w.kind = "Ok"
         /\ tx' = tx \o w.bytes
         /\ buffer' = buffer \o (IF damaged
                                 THEN FlipBit(w.bytes, Len(w.bytes) - 1, 0)
                                 ELSE w.bytes)
    /\ sent' = sent + 1
    /\ UNCHANGED << stage, fault, packet, decoded, alt >>
    /\ UNCHANGED << rx, line, report_buffer, pc, cmd, result, q0, seen,
                    after_error >>

\* reader.read_packet() on what is left of the stream
StreamRead ==
    /\ stage \in {"stream", "reading"}
    /\ buffer # << >>
    /\ \E r \in { read_packet(buffer) } :
         /\ decoded' = r
         /\ buffer' = Drop(buffer, r.consumed)
         /\ seen' = IF r.kind = "Ok" THEN Append(seen, r.packet) ELSE seen
    /\ stage' = "reading"
    /\ UNCHANGED << fault, packet, alt >>
    /\ UNCHANGED << rx, line, tx, report_buffer, pc, cmd, result, q0, sent,
                    after_error >>

NextStream ==
    \/ StreamWrite
    \/ StreamRead

SpecStream == InitStream /\ [][NextStream]_vars

(***************************************************************************)
(* transact on its own, for every type byte a packet can carry (transact   *)
(* takes any &Packet, lib.rs:70): the command is out, one frame comes back. *)
(***************************************************************************)
\* The frames that come back for command c: one of each class with the
\* 6-bit code of c, and a normal response with another code
MatchWire(c) ==
    { Encode(t, << >>) :
        t \in { (c.packet_type % 64) + 64 * k : k \in 0..3 }
               \cup { 64 + ((c.packet_type + 1) % 64) } }

\* transact(&Packet::new(t, &[])) has written its frame and enters its loop
InitMatch ==
    /\ \E t \in Byte :
         /\ cmd = Packet_new(t, << >>)
         /\ tx = write_packet(Packet_new(t, << >>)).bytes
    /\ pc = "transact"
    /\ rx = << >>
    /\ line = << >>
    /\ report_buffer = << >>
    /\ result = NoResult
    /\ q0 = << >>
    /\ seen = << >>
    /\ sent = 0
    /\ after_error = FALSE
    /\ CodecIdle
    /\ stage = "off"

\* One frame arrives.
MatchSend ==
    /\ sent = 0
    /\ pc = "transact"
    /\ \E bytes \in MatchWire(cmd) : Deliver(bytes, Len(bytes))

NextMatch ==
    \/ MatchSend
    \/ TransactLoop
    \/ TransactReadTimeout

SpecMatch == InitMatch /\ [][NextMatch]_vars

(***************************************************************************)
(* The codec on its own: a packet is built, written to a buffer, the       *)
(* buffer is possibly damaged, and a packet is read back (the tests of     *)
(* codec.rs:209-258, over bounded inputs).                                 *)
(***************************************************************************)
\* Payload bytes enumerated exhaustively up to MaxPayloadLen
PayloadBytes == {0, 1, 165, 255}

BoundedPayloads == UNION { [1..n -> PayloadBytes] : n \in 0..MaxPayloadLen }

\* Packet types paired with every bounded payload
CodecTypes == {0, 6, 31, 70, 128, 198, 255}

\* The packets of the tests of codec.rs (lines 235, 236, 246) and a set_text
\* packet of the longest payload, 22 bytes (lib.rs:170-177)
TestVectors ==
    { << 10, << 1, 2, 3, 4, 5, 6, 7, 8, 9, 10 >> >>,
      << 28, << 1, 4, 2, 8, 5, 3, 8, 4, 7, 9, 2, 3 >> >>,
      << 0, << 72, 101, 108, 108, 111, 32, 87, 111, 114, 108, 100 >> >>,
      << 31, << 19, 3 >> \o [i \in 1..20 |-> 64 + i] >> }

\* Every type byte with the empty payload, the chosen types with every
\* bounded payload, and the test vectors
CodecInputs ==
    { << t, << >> >> : t \in Byte }
      \cup (CodecTypes \X BoundedPayloads)
      \cup TestVectors

\* Arguments of Packet::new with more than MAX_DATA_LEN bytes of data
OversizedInputs ==
    { << t, [i \in 1..n |-> 66] >> : t \in {0, 31}, n \in {23, 24} }

\* Length bytes that are not a length
BadLens == {23, 24, 128, 255}

InitCodec ==
    /\ EngineInit
    /\ CodecIdle
    /\ stage = "start"

\* Packet::new(ptype, d): the packet, or the panic of the failed assertion
CodecNew ==
    /\ stage = "start"
    /\ \E in \in CodecInputs \cup OversizedInputs :
         IF new_assert(in[2])
         THEN /\ packet' = Packet_new(in[1], in[2])
              /\ stage' = "built"
         ELSE /\ packet' = packet
              /\ stage' = "panicked"
    /\ UNCHANGED << fault, buffer, decoded, alt >>
    /\ UNCHANGED << rx, line, tx, report_buffer, pc, cmd, result, q0, seen, sent,
                    after_error >>

\* alternate_crc(packet.crc_bytes())
CodecCrossCheck ==
    /\ stage = "built"
    /\ alt' = alternate_crc(crc_bytes(packet))
    /\ stage' = "checked"
    /\ UNCHANGED << fault, packet, buffer, decoded >>
    /\ UNCHANGED << rx, line, tx, report_buffer, pc, cmd, result, q0, seen, sent,
                    after_error >>

\* writer.write_packet(&packet)
CodecWrite ==
    /\ stage = "built"
    /\ write_packet(packet).kind = "Ok"
    /\ buffer' = write_packet(packet).bytes
    /\ stage' = "written"
    /\ UNCHANGED << fault, packet, decoded, alt >>
    /\ UNCHANGED << rx, line, tx, report_buffer, pc, cmd, result, q0, seen, sent,
                    after_error >>

\* One bit of one payload byte of the written frame is flipped.
CodecFlip ==
    /\ stage = "written"
    /\ fault = "none"
    /\ \E i \in 1..packet.data_len, b \in 0..7 : buffer' = FlipBit(buffer, 2 + i, b)
    /\ fault' = "flip"
    /\ UNCHANGED << stage, packet, decoded, alt >>
    /\ UNCHANGED << rx, line, tx, report_buffer, pc, cmd, result, q0, seen, sent,
                    after_error >>

\* The length byte of the written frame is replaced by one above 22.
CodecBadLen ==
    /\ stage = "written"
    /\ fault = "none"
    /\ \E l \in BadLens : buffer' = [buffer EXCEPT ![2] = l]
    /\ fault' = "badlen"
    /\ UNCHANGED << stage, packet, decoded, alt >>
    /\ UNCHANGED << rx, line, tx, report_buffer, pc, cmd, result, q0, seen, sent,
                    after_error >>

\* reader.read_packet() on the buffer
CodecRead ==
    /\ stage = "written"
    /\ decoded' = read_packet(buffer)
    /\ stage' = "read"
    /\ UNCHANGED << fault, packet, buffer, alt >>
    /\ UNCHANGED << rx, line, tx, report_buffer, pc, cmd, result, q0, seen, sent,
                    after_error >>

\* One bit of one of the two CRC bytes of the written frame is flipped.
CodecFlipCrc ==
    /\ stage = "written"
    /\ fault = "none"
    /\ \E i \in 1..2, b \in 0..7 :
         buffer' = FlipBit(buffer, 2 + packet.data_len + i, b)
    /\ fault' = "crc"
    /\ UNCHANGED << stage, packet, decoded, alt >>
    /\ UNCHANGED << rx, line, tx, report_buffer, pc, cmd, result, q0, seen, sent,
                    after_error >>

\* One bit of the type byte of the written frame is flipped.
CodecFlipType ==
    /\ stage = "written"
    /\ fault = "none"
    /\ \E b \in 0..7 : buffer' = FlipBit(buffer, 1, b)
    /\ fault' = "type"
    /\ UNCHANGED << stage, packet, decoded, alt >>
    /\ UNCHANGED << rx, line, tx, report_buffer, pc, cmd, result, q0, seen, sent,
                    after_error >>

\* writer.write_packet(&read_packet): the packet read back is written again
CodecRewrite ==
    /\ stage = "read"
    /\ decoded.kind = "Ok"
    /\ write_packet(decoded.packet).kind = "Ok"
    /\ buffer' = write_packet(decoded.packet).bytes
    /\ stage' = "rewritten"
    /\ UNCHANGED << fault, packet, decoded, alt >>
    /\ UNCHANGED << rx, line, tx, report_buffer, pc, cmd, result, q0, seen, sent,
                    after_error >>

NextCodec ==
    \/ CodecNew
    \/ CodecCrossCheck
    \/ CodecWrite
    \/ CodecFlip
    \/ CodecFlipCrc
    \/ CodecFlipType
    \/ CodecBadLen
    \/ CodecRead
    \/ CodecRewrite

SpecCodec == InitCodec /\ [][NextCodec]_vars

(***************************************************************************)
(* Properties of the codec, checked under SpecCodec.                       *)
(***************************************************************************)

\* C7. Round trip: reading back the bytes write_packet produced for a packet
\* built from any type byte and any payload of 0..22 bytes gives a packet
\* with the same type and the same payload, on which check_crc is true.
C7_RoundTrip ==
    (stage = "read" /\ fault = "none") =>
        /\ decoded.kind = "Ok"
        /\ decoded.packet.packet_type = packet.packet_type
        /\ data(decoded.packet) = data(packet)
        /\ PacketEq(decoded.packet, packet)
        /\ check_crc(decoded.packet)

\* C7 witness: the 22-byte payload has been written and read back.
C7_Witness ==
    /\ stage = "read"
    /\ fault = "none"
    /\ packet.data_len = MAX_DATA_LEN
    /\ decoded.kind = "Ok"

\* C8. CRC equivalence: over the bytes type, length, payload of a packet the
\* table-driven calculate_crc gives the two bytes the bit-by-bit reference
\* CRC-16 (polynomial 0x8408 reflected, initial 0xFFFF, complemented) gives.
C8_CrcEquivalence ==
    stage = "checked" => alt = calculate_crc(packet)

\* C8 witness: the second packet of the cross-check test has been compared.
C8_Witness ==
    /\ stage = "checked"
    /\ packet.packet_type = 28
    /\ packet.data_len = 12
    /\ Len(alt) = 2

\* C10. CRC mismatch detection: a valid encoded frame with a non-empty
\* payload of which one payload bit was flipped decodes to a packet on which
\* check_crc is false.
C10_BitFlipDetected ==
    (stage = "read" /\ fault = "flip") =>
        /\ decoded.kind = "Ok"
        /\ ~ check_crc(decoded.packet)

\* C10 witness: a bit of the 22-byte payload was flipped and the frame read.
C10_Witness ==
    /\ stage = "read"
    /\ fault = "flip"
    /\ packet.data_len = MAX_DATA_LEN
    /\ decoded.kind = "Ok"
    /\ data(decoded.packet) # data(packet)

(***************************************************************************)
(* Properties of the transaction engine, checked under Spec (a line that   *)
(* delivers whole, well-formed frames) or SpecLine (a line that also       *)
(* damages and splits frames).                                             *)
(***************************************************************************)
Last(s) == s[Len(s)]

\* The step is the caller's, not the display module's
CallerStep == sent' = sent /\ line' = line

\* The type byte of the normal (class 0b01) and of the error (class 0b11)
\* response to a command whose type byte is the code c
NormalType(c) == 64 + c
ErrorType(c) == 192 + c

\* C1. For a sent command whose type byte is a code c in 0..63, the first
\* received CRC-valid frame of class 0b01 and code c ends the transaction
\* with success and is the value returned, type and payload, whatever
\* reports and foreign frames came before it: while transact is in its loop
\* no such frame has been received; when the last frame received is such a
\* frame the call has returned it; and a success returns nothing else.
C1_FirstMatchReturned ==
    (cmd # NoPacket /\ cmd.packet_type \in 0..63) =>
        /\ pc = "transact" =>
             \A i \in 1..Len(seen) : seen[i].packet_type # NormalType(cmd.packet_type)
        /\ (pc = "idle" /\ seen # << >>
              /\ Last(seen).packet_type = NormalType(cmd.packet_type)) =>
             /\ result.kind = "Ok"
             /\ result.packet = Last(seen)
        /\ result.kind = "Ok" =>
             /\ seen # << >>
             /\ result.packet = Last(seen)
             /\ result.packet.packet_type = NormalType(cmd.packet_type)
             /\ \A i \in 1..(Len(seen) - 1) :
                  seen[i].packet_type # NormalType(cmd.packet_type)

\* C1 witness: command 0x06 was answered by 0x46 with payload 9 after a
\* report and a response to another command.
C1_Witness ==
    /\ cmd.packet_type = 6
    /\ result.kind = "Ok"
    /\ Len(seen) = 3
    /\ seen[1].packet_type = 128
    /\ seen[2].packet_type = 95
    /\ result.packet.packet_type = 70
    /\ data(result.packet) = << 9 >>

\* C2. For a sent command with code c in 0..63, a CRC-valid frame of class
\* 0b11 and code c received before any matching normal response ends the
\* transaction with Error::ReturnedError, and no response frame is returned.
C2_ErrorResponseFails ==
    (cmd # NoPacket /\ cmd.packet_type \in 0..63) =>
        /\ pc = "transact" =>
             \A i \in 1..Len(seen) : seen[i].packet_type # ErrorType(cmd.packet_type)
        /\ (pc = "idle" /\ seen # << >>
              /\ Last(seen).packet_type = ErrorType(cmd.packet_type)) =>
             /\ result.kind = "ReturnedError"
             /\ result.packet = NoPacket
             /\ result.report = None

\* C2 witness: command 0x06 was answered by 0xC6 after two other frames.
C2_Witness ==
    /\ cmd.packet_type = 6
    /\ pc = "idle"
    /\ Len(seen) = 3
    /\ Last(seen).packet_type = 198
    /\ result.kind = "ReturnedError"

\* A frame that is not a report and does not match the code of the sent
\* command with class 0b01 or 0b11
Foreign(command, p) ==
    /\ p.packet_type \div 64 # 2
    /\ ~ (/\ p.packet_type \div 64 \in {1, 3}
          /\ p.packet_type % 64 = command.packet_type % 64)

\* C3. In transact a CRC-valid frame that is neither a report nor a response
\* to the sent code is discarded: the turn of the loop that receives it
\* returns no error, does not end the transaction, leaves the report queue
\* as it was, consumes that frame alone, and the loop reads on.
C3_ForeignDiscarded ==
    [][ (/\ pc = "transact"
         /\ Len(seen') = Len(seen) + 1
         /\ Foreign(cmd, seen'[Len(seen')]))
        => (/\ pc' = "transact"
            /\ result' = NoResult
            /\ report_buffer' = report_buffer
            /\ rx' = Drop(rx, 4 + seen'[Len(seen')].data_len)) ]_vars

\* C3 witness: transact is still in its loop after a frame of class 0b00
\* and a class 0b01 frame of another code.
C3_Witness ==
    /\ pc = "transact"
    /\ cmd.packet_type = 6
    /\ Len(seen) = 2
    /\ { seen[1].packet_type, seen[2].packet_type } = { 6, 95 }
    /\ result = NoResult
    /\ report_buffer = q0

\* A report frame that decodes to a known report: type 0x80, sub-code 1..12
IsKnownReport(p) ==
    /\ p.packet_type = 128
    /\ p.data_len >= 1
    /\ p.data_array[1] \in 1..12

KeyNames == << "Up", "Down", "Left", "Right", "Enter", "Exit" >>

\* The reports of the known report frames of s, in the order of s
KnownReports(s) ==
    LET k == SelectSeq(s, IsKnownReport) IN
    [i \in 1..Len(k) |->
        [key     |-> KeyNames[((k[i].data_array[1] - 1) % 6) + 1],
         pressed |-> k[i].data_array[1] <= 6]]

\* C4. After a successful transact the report queue is the queue as it was
\* before the call followed by one entry for each known report frame
\* received during the call, in arrival order; foreign frames and unknown
\* reports add nothing; the payload returned is that of the matching
\* response.
C4_ReportsQueuedInOrder ==
    result.kind = "Ok" =>
        /\ report_buffer = q0 \o KnownReports(seen)
        /\ data(result.packet) = data(Last(seen))
        /\ Last(seen).packet_type = NormalType(cmd.packet_type)

\* C4 witness: command 0x1F saw a report, then a foreign frame, then its
\* response; one report is queued.
C4_Witness ==
    /\ cmd.packet_type = 31
    /\ result.kind = "Ok"
    /\ Len(seen) = 3
    /\ IsKnownReport(seen[1])
    /\ seen[2].packet_type = 70
    /\ seen[3].packet_type = 95
    /\ Len(report_buffer) = 1

\* C5. poll_report drains the report queue first in, first out: a call made
\* with a non-empty queue returns the oldest report, removes that entry
\* alone and reads nothing from the transport; a call that finds the queue
\* empty and no unread byte returns None.
C5_PollDrainsFifo ==
    [][ /\ (/\ pc = "idle"
            /\ report_buffer # << >>
            /\ CallerStep
            /\ cmd' = NoPacket)
           => (/\ result' = Returned("Some", NoPacket, << Head(report_buffer) >>)
               /\ report_buffer' = Tail(report_buffer)
               /\ rx' = rx
               /\ seen' = << >>
               /\ pc' = "idle")
        /\ (/\ pc = "poll"
            /\ report_buffer = << >>
            /\ rx = << >>
            /\ CallerStep)
           => (/\ result' = Returned("None", NoPacket, None)
               /\ report_buffer' = << >>
               /\ pc' = "idle") ]_vars

\* C5 witness: two different reports were queued and a poll has returned
\* the older one, leaving the newer.
C5_Witness ==
    /\ cmd = NoPacket
    /\ pc = "idle"
    /\ Len(q0) = 2
    /\ q0[1] # q0[2]
    /\ result = Returned("Some", NoPacket, << q0[1] >>)
    /\ report_buffer = << q0[2] >>

\* C6. poll_report never waits for data: whenever it is in its loop it can
\* go on with the bytes the port already holds (none, or enough for recv to
\* return).
C6_PollNeverWaits ==
    pc = "poll" => (Len(rx) = 0 \/ recv(rx).kind # "Io")

\* C9. When the second unread byte (the declared length) is 23 or more,
\* read_packet fails with InvalidPacket after the type and length bytes, and
\* the engine's call returns Error::InvalidRead having consumed those two
\* bytes only; no packet is received and the report queue is untouched.
C9_BadLengthRejected ==
    [][ (/\ pc \in {"transact", "poll"}
         /\ Len(rx) >= 2
         /\ rx[2] >= 23
         /\ CallerStep)
        => (/\ read_packet(rx).kind = "InvalidPacket"
            /\ read_packet(rx).consumed = 2
            /\ result' = Returned("InvalidRead", NoPacket, None)
            /\ pc' = "idle"
            /\ rx' = Drop(rx, 2)
            /\ seen' = seen
            /\ report_buffer' = report_buffer) ]_vars

\* C9 witness: the only frame sent had a bad length byte; the call failed
\* with InvalidRead and the frame's last three bytes are still unread.
C9_Witness ==
    /\ sent = 1
    /\ line = << >>
    /\ pc = "idle"
    /\ result.kind = "InvalidRead"
    /\ Len(rx) = 3

\* The type and length bytes of the next frame are in the port and the
\* length byte is above 22
BadLengthNext(s) == Len(s) >= 2 /\ s[2] > MAX_DATA_LEN

\* The next frame in the port is whole, its length byte is a length, and its
\* two CRC bytes are not the CRC of its type, length and payload bytes
BadCrcNext(s) ==
    /\ Len(s) >= 2
    /\ s[2] <= MAX_DATA_LEN
    /\ Len(s) >= 4 + s[2]
    /\ SubSeq(s, 3 + s[2], 4 + s[2]) # alternate_crc(SubSeq(s, 1, 2 + s[2]))

\* C11. In transact a received frame with a length byte above 22 and a
\* received frame whose CRC does not match both end the call with
\* Error::InvalidRead, which is not Error::Io; the call reads nothing after
\* the failing read (the bytes behind it stay unread, no resynchronisation)
\* and the report queue is as the loop left it.
C11_DesyncAbortsTransact ==
    [][ (/\ pc = "transact"
         /\ (BadLengthNext(rx) \/ BadCrcNext(rx))
         /\ CallerStep)
        => (/\ result'.kind = "InvalidRead"
            /\ result'.kind # "Io"
            /\ result' = Returned("InvalidRead", NoPacket, None)
            /\ pc' = "idle"
            /\ rx' = Drop(rx, IF BadLengthNext(rx) THEN 2 ELSE 4 + rx[2])
            /\ seen' = seen
            /\ report_buffer' = report_buffer) ]_vars

\* C11 witness: a transact received a report, then a frame with a flipped
\* payload bit; it failed with InvalidRead, the report stays queued and the
\* frame sent after the damaged one is unread.
C11_Witness ==
    /\ cmd # NoPacket
    /\ pc = "idle"
    /\ result.kind = "InvalidRead"
    /\ Len(seen) = 1
    /\ Len(report_buffer) = Len(q0) + 1
    /\ sent = 3
    /\ rx \in LineWire

\* A frame has begun and the port ends before its 1 + 1 + length + 2 bytes
Truncated(s) ==
    \/ Len(s) = 1
    \/ (Len(s) >= 2 /\ s[2] <= MAX_DATA_LEN /\ Len(s) < 4 + s[2])

\* C12, as stated. In transact a read that the end of the stream cuts short
\* surfaces as the desynchronisation error (Error::InvalidRead), like a
\* malformed length, and the call returns.
C12_TruncationIsDesync ==
    [][ (/\ pc = "transact"
         /\ Truncated(rx)
         /\ CallerStep)
        => (/\ result'.kind = "InvalidRead"
            /\ pc' = "idle") ]_vars

\* C12, amended. In transact a read that the end of the stream cuts short
\* surfaces as the transport I/O error (Error::Io), not as the
\* desynchronisation error of a malformed length; the call returns, no
\* packet is received and the report queue is as the loop left it.
C12_TruncationIsIo ==
    [][ (/\ pc = "transact"
         /\ Truncated(rx)
         /\ CallerStep)
        => (/\ result' = Returned("Io", NoPacket, None)
            /\ result'.kind # "InvalidRead"
            /\ pc' = "idle"
            /\ seen' = seen
            /\ report_buffer' = report_buffer) ]_vars

\* C12 witness: a transact read the first bytes of a frame whose rest had
\* not arrived; it failed with Io and the rest is still on its way.
C12_Witness ==
    /\ cmd # NoPacket
    /\ tx = write_packet(cmd).bytes
    /\ pc = "idle"
    /\ result.kind = "Io"
    /\ sent = 1
    /\ rx = << >>
    /\ line # << >>

RECURSIVE FrameBoundary(_)
\* s begins at a frame boundary: it is a run of whole frames, each with a
\* length byte of at most 22 and the CRC of its bytes
FrameBoundary(s) ==
    \/ s = << >>
    \/ /\ Len(s) >= 2
       /\ s[2] <= MAX_DATA_LEN
       /\ Len(s) >= 4 + s[2]
       /\ ~ BadCrcNext(s)
       /\ FrameBoundary(Drop(s, 4 + s[2]))

\* The bytes of the first frame of s
FirstFrame(s) == SubSeq(s, 1, 4 + s[2])

\* C13. A transact that ends with Error::ReturnedError leaves the session
\* aligned: the turn that returns the error consumes the error frame and
\* nothing behind it, what is left unread begins at a frame boundary, the
\* transact that follows starts reading there, and when the next frame it
\* reads is the normal response to its command it returns that frame.
C13_AlignedAfterDeviceError ==
    [][ /\ (pc = "transact" /\ result'.kind = "ReturnedError")
           => (/\ pc' = "idle"
               /\ FrameBoundary(rx)
               /\ rx = FirstFrame(rx) \o rx'
               /\ FirstFrame(rx)[1] = ErrorType(cmd.packet_type)
               /\ FrameBoundary(rx'))
        /\ (result.kind = "ReturnedError" /\ pc' = "transact")
           => (/\ after_error'
               /\ rx' = rx
               /\ FrameBoundary(rx'))
        /\ (after_error /\ pc = "transact" /\ CallerStep)
           => FrameBoundary(rx')
        /\ (/\ after_error
            /\ pc = "transact"
            /\ CallerStep
            /\ rx # << >>
            /\ rx[1] = NormalType(cmd.packet_type))
           => (/\ result'.kind = "Ok"
               /\ result'.packet.packet_type = rx[1]
               /\ data(result'.packet) = SubSeq(rx, 3, 2 + rx[2])
               /\ pc' = "idle") ]_vars

\* C13 witness: command 0x06 was rejected by the display module, the
\* transact made right after it read a report and then its response 0x5F
\* and succeeded.
C13_Witness ==
    /\ after_error
    /\ cmd.packet_type = 31
    /\ pc = "idle"
    /\ result.kind = "Ok"
    /\ Len(seen) = 2
    /\ seen[1].packet_type = 128
    /\ result.packet.packet_type = 95

\* The last two bytes of b are the reference CRC, low byte first, of the
\* bytes before them
CrcOfEmitted(b) ==
    /\ Len(b) >= 4
    /\ SubSeq(b, Len(b) - 1, Len(b)) = alternate_crc(SubSeq(b, 1, Len(b) - 2))

\* C14. Whatever packet write_packet is given, one built by Packet::new
\* (CRC cached and trusted) or one returned by read_packet (received CRC,
\* untrusted, possibly wrong), the bytes written are the packet's type,
\* length and payload followed by their correct CRC, low byte first.
C14_EmittedCrcCorrect ==
    /\ (stage = "written" /\ fault = "none") =>
         /\ packet.trusted_crc
         /\ SubSeq(buffer, 1, Len(buffer) - 2) = crc_bytes(packet)
         /\ CrcOfEmitted(buffer)
    /\ stage = "rewritten" =>
         /\ ~ decoded.packet.trusted_crc
         /\ SubSeq(buffer, 1, Len(buffer) - 2) = crc_bytes(decoded.packet)
         /\ CrcOfEmitted(buffer)

\* C14 witness: a packet read from a frame with a flipped payload bit, whose
\* received CRC is wrong, was written again, and not with the CRC received.
C14_Witness ==
    /\ stage = "rewritten"
    /\ fault = "flip"
    /\ ~ check_crc(decoded.packet)
    /\ SubSeq(buffer, Len(buffer) - 1, Len(buffer)) # decoded.packet.crc

\* C15. Every Packet that exists has a payload of at most 22 bytes:
\* Packet::new given more than 22 bytes panics and makes no packet (the data
\* is not cut to 22 bytes), read_packet returns no packet for a length byte
\* above 22, and write_packet never answers InvalidLength for a packet it
\* can be given.
C15_PayloadAtMost22 ==
    /\ stage = "panicked" => packet = NoPacket
    /\ packet # NoPacket =>
         /\ packet.data_len <= MAX_DATA_LEN
         /\ Len(packet.data_array) = MAX_DATA_LEN
         /\ \A in \in OversizedInputs :
              data(packet) # SubSeq(in[2], 1, MAX_DATA_LEN)
         /\ write_packet(packet).kind # "InvalidLength"
    /\ decoded.kind = "Ok" =>
         /\ decoded.packet.data_len <= MAX_DATA_LEN
         /\ Len(decoded.packet.data_array) = MAX_DATA_LEN
         /\ write_packet(decoded.packet).kind # "InvalidLength"
    /\ (stage = "read" /\ fault = "badlen") =>
         /\ decoded.kind = "InvalidPacket"
         /\ decoded.packet = NoPacket

\* C15 witness: Packet::new was given more than 22 bytes and panicked.
C15_Witness ==
    /\ stage = "panicked"
    /\ packet = NoPacket
    /\ buffer = << >>

\* C16. Two packets are equal exactly when their type bytes are equal and
\* their payloads are equal: the packet read back from a frame equals the
\* packet the frame was written from when the frame arrived as written or
\* with a changed CRC byte (stored CRC and trusted flag differ), and differs
\* from it when a payload bit or a type bit was changed; equality is
\* symmetric and every packet equals itself.
C16_EqualityByTypeAndPayload ==
    (stage \in {"read", "rewritten"} /\ decoded.kind = "Ok") =>
        /\ PacketEq(decoded.packet, packet) <=> fault \in {"none", "crc"}
        /\ PacketEq(packet, decoded.packet) <=> PacketEq(decoded.packet, packet)
        /\ PacketEq(decoded.packet, packet) <=>
             /\ decoded.packet.packet_type = packet.packet_type
             /\ decoded.packet.data_len = packet.data_len
             /\ \A i \in 1..packet.data_len :
                  decoded.packet.data_array[i] = packet.data_array[i]
        /\ PacketEq(packet, packet)
        /\ PacketEq(decoded.packet, decoded.packet)

\* C16 witness: a packet read from a frame with a changed CRC byte equals
\* the packet written, though its stored CRC and its trusted flag differ.
C16_Witness ==
    /\ stage = "read"
    /\ fault = "crc"
    /\ decoded.kind = "Ok"
    /\ decoded.packet.crc # packet.crc
    /\ decoded.packet.trusted_crc # packet.trusted_crc
    /\ packet.data_len = 2
    /\ PacketEq(decoded.packet, packet)

\* C17. A transact never ends on a report: the turn of the loop that
\* receives a CRC-valid frame of class 0b10, whatever its code (the code of
\* the sent command included), returns nothing and goes on reading, having
\* queued the frame's report when it is a known one and nothing otherwise;
\* so the last frame a finished transact received is never of class 0b10.
C17_NeverEndsOnReport ==
    [][ /\ (/\ pc = "transact"
            /\ Len(seen') = Len(seen) + 1
            /\ Last(seen').packet_type \div 64 = 2)
           => (/\ pc' = "transact"
               /\ result' = NoResult
               /\ report_buffer' = report_buffer \o KnownReports(<< Last(seen') >>)
               /\ rx' = Drop(rx, 4 + Last(seen').data_len))
        /\ (result'.kind \in {"Ok", "ReturnedError"})
           => (/\ seen' # << >>
               /\ Last(seen').packet_type \div 64 # 2) ]_vars

\* C17 witness: command 0x06 is still waiting after the frame 0x86 (class
\* 0b10 with the command's code) and a key report; the key report alone
\* was queued.
C17_Witness ==
    /\ pc = "transact"
    /\ cmd.packet_type = 6
    /\ Len(seen) = 2
    /\ seen[1].packet_type = 134
    /\ seen[2].packet_type = 128
    /\ result = NoResult
    /\ Len(report_buffer) = Len(q0) + 1

\* C18. transact has no timeout or frame limit of its own.  It returns only
\* with a matching normal response (Ok), a matching error response
\* (ReturnedError), a failed read (Io) or a malformed length or CRC mismatch
\* (InvalidRead); a turn that receives a report or a foreign frame does not
\* return; and since the line delivers a matching frame or a read fails at
\* last, a transact in progress returns at last.
C18_ReturnsOnResponseOrFailure ==
    /\ [][ /\ (pc = "transact" /\ pc' = "idle")
              => (\/ /\ result'.kind = "Ok"
                     /\ Last(seen').packet_type = NormalType(cmd.packet_type)
                  \/ /\ result'.kind = "ReturnedError"
                     /\ Last(seen').packet_type = ErrorType(cmd.packet_type)
                  \/ /\ result'.kind = "Io"
                     /\ (rx = << >> \/ Truncated(rx))
                  \/ /\ result'.kind = "InvalidRead"
                     /\ (BadLengthNext(rx) \/ BadCrcNext(rx)))
           /\ (/\ pc = "transact"
               /\ Len(seen') = Len(seen) + 1
               /\ (Last(seen').packet_type \div 64 = 2 \/ Foreign(cmd, Last(seen'))))
              => (pc' = "transact" /\ result' = NoResult) ]_vars
    /\ (pc = "transact") ~> (pc = "idle" /\ result.kind \in
                                {"Ok", "ReturnedError", "Io", "InvalidRead"})

\* C18 witness: every frame the line delivered was a report or a foreign
\* frame, transact received them all and went on waiting; it returned only
\* when the read failed.
C18_Witness ==
    /\ cmd.packet_type = 31
    /\ pc = "idle"
    /\ result.kind = "Io"
    /\ sent = MaxFrames
    /\ Len(seen) = sent
    /\ rx = << >>

\* The bytes of the frame of packet p: type, length, payload, and the
\* reference CRC of these
FrameOf(p) == crc_bytes(p) \o alternate_crc(crc_bytes(p))

\* The frame of each command the caller sends
CommandFrames == [c \in Commands |-> FrameOf(c)]

\* t is s without at least its last byte
ProperPrefix(t, s) == Len(t) < Len(s) /\ t = SubSeq(s, 1, Len(t))

\* C19. A transact writes the frame of its command once, before it reads,
\* and never again: the call begins by writing with nothing read, in its loop
\* the bytes written are that one frame and stay so, and when the write
\* fails the call returns Error::Io at once, with less than the frame
\* written, no byte read, no frame received and the report queue unchanged.
C19_WritesOnceBeforeReading ==
    [][ /\ (pc = "idle" /\ cmd' # NoPacket /\ CallerStep)
           => (/\ rx' = rx
               /\ seen' = << >>
               /\ report_buffer' = report_buffer
               /\ \/ /\ pc' = "transact"
                     /\ result' = NoResult
                     /\ tx' = CommandFrames[cmd']
                  \/ /\ pc' = "idle"
                     /\ result' = Returned("Io", NoPacket, None)
                     /\ ProperPrefix(tx', CommandFrames[cmd']))
        /\ pc' = "transact" => tx' = CommandFrames[cmd']
        /\ pc = "transact" => (tx' = tx /\ cmd' = cmd) ]_vars

\* C19 witness: with a report waiting in the port, a transact failed to
\* write after the two header bytes of its frame and returned Io; the port
\* and the report queue are as they were.
C19_Witness ==
    /\ cmd.packet_type = 31
    /\ pc = "idle"
    /\ result.kind = "Io"
    /\ tx = << 31, 3 >>
    /\ seen = << >>
    /\ rx = Encode(128, << 1 >>)
    /\ report_buffer = q0

\* The frames of a run of whole frames s, in order, each as its type, its
\* length and its payload
FramesIn(s) ==
    LET frames[t \in Seq(Byte)] ==
            IF Len(t) < 4 THEN << >>
            ELSE << [packet_type |-> t[1], data_len |-> t[2],
                     data_array |-> SubSeq(t, 3, 2 + t[2])] >>
                 \o frames[Drop(t, 4 + t[2])]
    IN frames[s]

\* The reports that have arrived and were not yet returned by poll_report,
\* in arrival order: those queued, then those of the frames still unread
Pending == report_buffer \o KnownReports(FramesIn(rx))

\* The step is a poll_report returning a report
PollReturnsReport ==
    /\ CallerStep
    /\ pc \in {"idle", "poll"}
    /\ pc' = "idle"
    /\ cmd' = NoPacket
    /\ result'.kind = "Some"

\* C20. Whatever the interleaving of transact and poll_report calls on a
\* line without faults, the reports poll_report returns are the known
\* report frames in arrival order, each once: a frame that arrives adds its
\* report (if it is a known one) behind those pending, a poll_report that
\* returns a report returns the oldest pending one and removes it alone, no
\* other step of a call changes what is pending, and poll_report returns
\* None only when nothing is pending.
C20_ReportsDeliveredInOrder ==
    [][ /\ sent' = sent + 1
           => Pending' = Pending \o KnownReports(FramesIn(Drop(rx', Len(rx))))
        /\ PollReturnsReport
           => (/\ Pending # << >>
               /\ result'.report = << Head(Pending) >>
               /\ Pending' = Tail(Pending))
        /\ (CallerStep /\ ~ PollReturnsReport)
           => Pending' = Pending
        /\ (pc = "poll" /\ result'.kind = "None")
           => Pending = << >> ]_vars

\* C20 witness: after three frames arrived, a poll_report that found the
\* queue empty read a frame that is no report, then a key report, from the
\* port and returned that report; nothing is pending any more.
C20_Witness ==
    /\ cmd = NoPacket
    /\ pc = "idle"
    /\ sent >= 3
    /\ q0 = << >>
    /\ Len(seen) = 2
    /\ seen[1].packet_type = 6
    /\ result.kind = "Some"
    /\ result.report = from_raw(seen[2])
    /\ result.report[1].key = "Down"
    /\ Pending = << >>

C22_OneFramePerPoll ==
    (cmd = NoPacket /\ q0 = << >>) =>
        /\ Len(seen) <= 1
        /\ (pc = "idle" /\ Len(seen) = 1) =>
             /\ result.report = KnownReports(seen)
             /\ result.kind = IF IsKnownReport(seen[1]) THEN "Some" ELSE "None"

\* C22. When poll_report finds the report queue empty it decodes frames
\* while the port holds unread bytes, until one of them is a report: each
\* turn of its loop consumes one frame; a report is returned at once; any
\* other frame is discarded without error and the loop goes on with the
\* next frame in the same call; None is returned only when the port holds
\* no unread byte. The report queue stays empty throughout.
C22_PollReadsUntilReport ==
    [][ (pc = "poll" /\ CallerStep) =>
          /\ report_buffer' = << >>
          /\ IF rx = << >> THEN
                 /\ pc' = "idle"
                 /\ result'.kind = "None"
                 /\ seen' = seen
             ELSE
                 /\ Len(seen') = Len(seen) + 1
                 /\ rx = FirstFrame(rx) \o rx'
                 /\ IF IsKnownReport(Last(seen')) THEN
                        /\ pc' = "idle"
                        /\ result'.kind = "Some"
                        /\ result'.report = KnownReports(<< Last(seen') >>)
                    ELSE
                        /\ pc' = "poll"
                        /\ result' = NoResult ]_vars

\* C22 witness: one poll_report call that found the queue empty has read
\* three frames from the port, two that are no report and then a key
\* report, and returned that report.
C22_Witness ==
    /\ cmd = NoPacket
    /\ pc = "idle"
    /\ q0 = << >>
    /\ report_buffer = << >>
    /\ Len(seen) = 3
    /\ ~ IsKnownReport(seen[1])
    /\ ~ IsKnownReport(seen[2])
    /\ IsKnownReport(seen[3])
    /\ result.kind = "Some"
    /\ result.report = KnownReports(seen)

\* A frame of class 0b10 that is no known report: its type is not 0x80, or
\* its payload is empty, or its sub-code is outside 1..12
UndecodableReport(p) ==
    /\ p.packet_type \div 64 = 2
    /\ \/ p.packet_type # 128
       \/ p.data_len = 0
       \/ p.data_array[1] \notin 1..12

\* C23. In transact and in poll_report alike, the turn of the loop that
\* receives a frame of class 0b10 that cannot be decoded (type other than
\* 0x80, empty payload, or sub-code outside 1..12) drops it: the report
\* queue is left as it was, no error and no value is returned, that frame
\* alone is consumed, and the loop goes on with the next frame.
C23_UndecodableReportDropped ==
    [][ (/\ pc \in {"transact", "poll"}
         /\ Len(seen') = Len(seen) + 1
         /\ UndecodableReport(Last(seen')))
        => (/\ pc' = pc
            /\ result' = NoResult
            /\ report_buffer' = report_buffer
            /\ rx' = Drop(rx, 4 + Last(seen').data_len)) ]_vars

\* C23 witness: a poll_report that found the queue empty has read the three
\* kinds of undecodable report frame and is still in its loop, with the
\* queue empty and nothing returned.
C23_Witness ==
    /\ cmd = NoPacket
    /\ pc = "poll"
    /\ Len(seen) = 3
    /\ \A i \in 1..3 : UndecodableReport(seen[i])
    /\ \E i \in 1..3 : seen[i].packet_type # 128
    /\ \E i \in 1..3 : seen[i].packet_type = 128 /\ seen[i].data_len = 0
    /\ \E i \in 1..3 : seen[i].data_len = 1 /\ seen[i].data_array[1] = 13
    /\ result = NoResult
    /\ report_buffer = << >>

\* The frames the packets of s are, each as its type, its length and its
\* payload
FramesOf(s) ==
    [i \in 1..Len(s) |->
        [packet_type |-> s[i].packet_type, data_len |-> s[i].data_len,
         data_array |-> SubSeq(s[i].data_array, 1, s[i].data_len)]]

\* C24. A read_packet that succeeds takes exactly 1 + 1 + length + 2 bytes
\* from the stream, length being the second byte, and leaves every byte
\* behind them unread; it returns the type, the payload and the two CRC
\* bytes it took without checking the CRC, so a frame whose CRC is wrong is
\* returned as well.  Hence the packets returned by repeated reads, followed
\* by the frames still unread, are at every moment the frames that were
\* written, in order; once the stream is read to its end the packets
\* returned are the frames written.
C24_DecodeConsumesOneFrame ==
    /\ [][ stage' = "reading" =>
             /\ decoded'.kind = "Ok"
             /\ decoded'.consumed = 1 + 1 + buffer[2] + 2
             /\ buffer = SubSeq(buffer, 1, decoded'.consumed) \o buffer'
             /\ decoded'.packet.packet_type = buffer[1]
             /\ decoded'.packet.data_len = buffer[2]
             /\ SubSeq(decoded'.packet.data_array, 1, buffer[2])
                  = SubSeq(buffer, 3, 2 + buffer[2])
             /\ decoded'.packet.crc = SubSeq(buffer, 3 + buffer[2], 4 + buffer[2])
             /\ seen' = Append(seen, decoded'.packet) ]_vars
    /\ [](stage \in {"stream", "reading"} =>
            FramesOf(seen) \o FramesIn(buffer) = FramesIn(tx))

\* C24 witness: three frames of different lengths were written, the second
\* reached the reader with a wrong CRC; three reads have returned the three
\* frames in order, the second among them, and the stream is at its end.
C24_Witness ==
    /\ stage = "reading"
    /\ buffer = << >>
    /\ Len(seen) = 3
    /\ FramesOf(seen) = FramesIn(tx)
    /\ seen[1].data_len = 3
    /\ seen[2].data_len = 0
    /\ seen[3].data_len = 1
    /\ seen[1].crc = calculate_crc(seen[1])
    /\ seen[2].crc # calculate_crc(seen[2])

\* C25. poll_report passes the errors of its reads on: when it found the
\* report queue empty and the next frame in the port has a length byte
\* above 22 or a CRC that does not match, the call returns
\* Error::InvalidRead; when the read is cut short and times out, the call
\* returns Error::Io; in neither case is None or a report returned, and the
\* report queue stays empty.
C25_PollReturnsReadErrors ==
    [][ (pc = "poll" /\ CallerStep /\ rx # << >>) =>
          /\ (BadLengthNext(rx) \/ BadCrcNext(rx)) =>
               /\ pc' = "idle"
               /\ result'.kind = "InvalidRead"
               /\ result'.report = << >>
          /\ Truncated(rx) =>
               /\ pc' = "idle"
               /\ result'.kind = "Io"
               /\ result'.report = << >>
          /\ report_buffer = << >>
          /\ report_buffer' = << >> ]_vars

\* C25 witness: a poll_report that found the queue empty has read and
\* discarded one frame, then met a frame that fails to decode, and returned
\* Error::InvalidRead; the queue is empty.
C25_Witness ==
    /\ cmd = NoPacket
    /\ pc = "idle"
    /\ q0 = << >>
    /\ Len(seen) = 1
    /\ result.kind = "InvalidRead"
    /\ result.report = << >>
    /\ report_buffer = << >>

\* The last call was a transact and it returned an error
TransactFailed ==
    /\ cmd # NoPacket
    /\ pc = "idle"
    /\ result.kind \in {"ReturnedError", "InvalidRead", "Io"}

\* C26. A transact that fails keeps the reports it queued: after it returned
\* Error::ReturnedError, Error::InvalidRead or Error::Io the report queue is
\* the queue as it was before the call followed by the known reports
\* received before the failure, in arrival order; the poll_report that
\* follows returns the oldest of them and leaves the others in order.
C26_ReportsKeptOnFailure ==
    /\ [](TransactFailed => report_buffer = q0 \o KnownReports(seen))
    /\ [][ (/\ TransactFailed
             /\ report_buffer # << >>
             /\ CallerStep
             /\ cmd' = NoPacket)
            => (/\ result' = Returned("Some", NoPacket, << (q0 \o KnownReports(seen))[1] >>)
                /\ report_buffer' = Tail(q0 \o KnownReports(seen))
                /\ pc' = "idle") ]_vars

\* C26 witness: a transact that began with one report queued received
\* another report and then the error response of its command; it returned
\* Error::ReturnedError and both reports are queued, the older first.
C26_Witness ==
    /\ TransactFailed
    /\ result.kind = "ReturnedError"
    /\ Len(q0) = 1
    /\ Len(seen) = 2
    /\ IsKnownReport(seen[1])
    /\ Last(seen).packet_type = ErrorType(cmd.packet_type)
    /\ report_buffer = q0 \o KnownReports(<< seen[1] >>)
    /\ report_buffer[1] # report_buffer[2]

====
